---- MODULE Spec2Model ----
(***************************************************************************)
(* Model of demos/code-viewer-sample.py: normalise, summarise and the      *)
(* Summary dataclass, driven by callers that hold list objects and call    *)
(* the two functions, one bytecode-level step at a time.                   *)
(*                                                                         *)
(* Numbers are Python floats.  The model keeps the IEEE 754 structure of   *)
(* binary64 (round to nearest, ties to even, gradual underflow, overflow   *)
(* to infinity, NaN) in a format scaled down to Prec significand bits.     *)
(* A finite float is the integer number of smallest-subnormal units it     *)
(* holds, so 1.0 is One = 2^FracBits units.                                *)
(***************************************************************************)
EXTENDS Integers, Sequences, FiniteSets

VARIABLES
    lists,      \* heap of list objects: list id -> its elements
    src,        \* list id -> id of the list normalise built it from, 0 if the caller built it
    summaries,  \* heap of Summary objects: summary id -> [count, average]
    live,       \* ids of the Summary objects a caller holds; the others are free
    created,    \* history: summary id -> the fields the constructor stored
    assigned,   \* history: ids of the Summary objects a caller assigned a field of
    pc,         \* caller -> line of the function body it is at
    arg,        \* caller -> id of the list passed as `values`
    snap,       \* history: caller -> elements of `values` when the call was made
    loc,        \* caller -> the call's local variables
    ret         \* caller -> id of the returned list or Summary

vars == <<lists, src, summaries, live, created, assigned, pc, arg, snap, loc, ret>>

----------------------------------------------------------------------------
(* Bounds of the model *)

\* significand bits of the scaled-down float format
Prec == 2
\* binades of normal numbers above the subnormal range
ExpMax == 1
\* 1.0 is 2^FracBits smallest-subnormal units
FracBits == 2
\* longest list a caller builds
MaxLen == 3
\* longest list a caller builds when two callers run concurrently
MaxLenConc == 2
\* lists normalise may return before the heap is full
MaxResults == 2

----------------------------------------------------------------------------
(* Python floats *)

One == 2^FracBits
MaxFinite == (2^Prec - 1) * 2^ExpMax
PosInf == MaxFinite + 1
NegInf == 0 - PosInf
NaN == PosInf + 1
\* Python's None, the absent marker: no float
None == PosInf + 2

Abs(x) == IF x < 0 THEN 0 - x ELSE x

\* the finite floats of the format
Floats ==
    { s * m * 2^e : s \in {-1, 1}, m \in 0..(2^Prec - 1), e \in 0..ExpMax }

IsFinite(x) == x \in Floats

\* n/d >= 0 (in units) rounded to the nearest float, ties to even; PosInf on overflow
RoundRat(n, d) ==
    IF n >= d * 2^(Prec + ExpMax) THEN PosInf
    ELSE LET e  == CHOOSE k \in 0..ExpMax :
                       /\ n < d * 2^(Prec + k)
                       /\ (k = 0 \/ n >= d * 2^(Prec + k - 1))
             u  == d * 2^e
             q  == n \div u
             r  == n % u
             qr == IF 2 * r > u \/ (2 * r = u /\ q % 2 = 1) THEN q + 1 ELSE q
             x  == qr * 2^e
         IN  IF x > MaxFinite THEN PosInf ELSE x

\* n/d (d > 0) rounded to a float
Round(n, d) == IF n < 0 THEN 0 - RoundRat(0 - n, d) ELSE RoundRat(n, d)

\* float comparisons: every comparison with NaN is False
FLt(a, b) == a # NaN /\ b # NaN /\ a < b
FEq(a, b) == a # NaN /\ b # NaN /\ a = b
FLe(a, b) == a # NaN /\ b # NaN /\ a <= b

\* a - b on floats
FSub(a, b) ==
    CASE a = NaN \/ b = NaN -> NaN
      [] a = PosInf -> IF b = PosInf THEN NaN ELSE PosInf
      [] a = NegInf -> IF b = NegInf THEN NaN ELSE NegInf
      [] b = PosInf -> NegInf
      [] b = NegInf -> PosInf
      [] OTHER -> Round(a - b, 1)

\* a / b on floats, b # 0 (Python raises ZeroDivisionError for b = 0)
FDiv(a, b) ==
    CASE a = NaN \/ b = NaN -> NaN
      [] a \in {PosInf, NegInf} /\ b \in {PosInf, NegInf} -> NaN
      [] a \in {PosInf, NegInf} -> IF (a > 0) = (b > 0) THEN PosInf ELSE NegInf
      [] b \in {PosInf, NegInf} -> 0
      [] OTHER -> IF b > 0 THEN Round(a * One, b) ELSE Round(0 - a * One, 0 - b)

----------------------------------------------------------------------------
(* Builtins and library functions the module calls *)

RECURSIVE PyMinFrom(_, _, _)
PyMinFrom(values, k, cur) ==
    IF k > Len(values) THEN cur
    ELSE PyMinFrom(values, k + 1, IF FLt(values[k], cur) THEN values[k] ELSE cur)

\* min(values): the first element no later element is less than
PyMin(values) == PyMinFrom(values, 2, values[1])

RECURSIVE PyMaxFrom(_, _, _)
PyMaxFrom(values, k, cur) ==
    IF k > Len(values) THEN cur
    ELSE PyMaxFrom(values, k + 1, IF FLt(cur, values[k]) THEN values[k] ELSE cur)

\* max(values): the first element no later element is greater than
PyMax(values) == PyMaxFrom(values, 2, values[1])

RECURSIVE Sum(_)
Sum(values) == IF values = <<>> THEN 0 ELSE Head(values) + Sum(Tail(values))

\* statistics.mean on floats: the exact sum over the count, rounded once
Mean(cleaned) == Round(Sum(cleaned), Len(cleaned))

----------------------------------------------------------------------------
(* The expressions of normalise and summarise *)

\* line 11: `not values`
IsEmpty(values) == Len(values) = 0

\* line 15: `lower == upper`
IsConstant(lower, upper) == FEq(lower, upper)

\* a bug: the constant case filled with 0.0
FillZero == One - One

\* line 16: the element of the constant case, 1.0
Fill == One

\* line 17: `upper - lower`
Spread(lower, upper) == FSub(upper, lower)

\* line 18: `(value - lower) / spread`
Scaled(value, lower, spread) == FDiv(FSub(value, lower), spread)

\* a bug: the comprehension filtered with `if value != lower`
ScaleItemSkipMin(out, value, lower, spread) ==
    IF value = lower THEN out ELSE Append(out, Scaled(value, lower, spread))

\* line 18: one iteration of the comprehension
ScaleItem(out, value, lower, spread) == Append(out, Scaled(value, lower, spread))

\* a bug: the filter written `if value`, which drops zeros too
RetainedTruthy(value) == value # None /\ value # 0

\* line 28: `value is not None`
Retained(value) == value # None

\* a bug: None for the average of nothing
AverageOrNone(cleaned) == IF cleaned # <<>> THEN Mean(cleaned) ELSE None

\* line 29: `mean(cleaned) if cleaned else 0.0`
Average(cleaned) == IF cleaned # <<>> THEN Mean(cleaned) ELSE 0

\* lines 21-24: the fields Summary(count=..., average=...) stores
Summary(count, average) == [count |-> count, average |-> average]

----------------------------------------------------------------------------
(* The functions run alone, start to end *)

RECURSIVE Ones(_)
Ones(values) == IF values = <<>> THEN <<>> ELSE <<Fill>> \o Ones(Tail(values))

RECURSIVE ScaleAll(_, _, _)
ScaleAll(values, lower, spread) ==
    IF values = <<>> THEN <<>>
    ELSE <<Scaled(Head(values), lower, spread)>> \o ScaleAll(Tail(values), lower, spread)

Normalise(values) ==
    IF IsEmpty(values) THEN <<>>
    ELSE LET lower == PyMin(values)
             upper == PyMax(values)
         IN  IF IsConstant(lower, upper) THEN Ones(values)
             ELSE ScaleAll(values, lower, Spread(lower, upper))

RECURSIVE Cleaned(_)
Cleaned(values) ==
    IF values = <<>> THEN <<>>
    ELSE (IF Retained(Head(values)) THEN <<Head(values)>> ELSE <<>>) \o Cleaned(Tail(values))

Summarise(values) ==
    LET cleaned == Cleaned(values)
    IN  Summary(Len(cleaned), Average(cleaned))

----------------------------------------------------------------------------
(* State *)

Elems(values) == { values[k] : k \in 1..Len(values) }

SeqsUpTo(S, n) == UNION { [1..k -> S] : k \in 0..n }

NoLocals ==
    [lower |-> 0, upper |-> 0, spread |-> 0, out |-> <<>>, i |-> 1, cleaned |-> <<>>]

\* the slot of a Summary no caller holds
Freed == [count |-> 0, average |-> 0]

NormalisePcs == {"n11", "n14min", "n14max", "n15", "n16", "n17", "n18"}

\* what the caller's list holds: zero, the smallest subnormal, 1.0 and the
\* largest finite float, of either sign, and the absent marker
InputValues == { x \in Floats : Abs(x) \in {0, 1, One, MaxFinite} } \cup {None}

\* one caller holding one list of floats and absent markers
Init ==
    /\ lists \in { <<v>> : v \in SeqsUpTo(InputValues, MaxLen) }
    /\ src = <<0>>
    /\ summaries = [s \in {1} |-> Freed]
    /\ live = {}
    /\ created = [s \in {1} |-> Freed]
    /\ assigned = {}
    /\ pc = [t \in {1} |-> "idle"]
    /\ arg = [t \in {1} |-> 0]
    /\ snap = [t \in {1} |-> <<>>]
    /\ loc = [t \in {1} |-> NoLocals]
    /\ ret = [t \in {1} |-> 0]

\* what the concurrent callers' list holds: zero, the smallest subnormal and
\* the absent marker
ConcValues == {0, 1, None}

\* the concurrent callers
ConcCallers == {1, 2}

\* two callers sharing one list
InitConc ==
    /\ lists \in { <<v>> : v \in SeqsUpTo(ConcValues, MaxLenConc) }
    /\ src = <<0>>
    /\ summaries = [s \in ConcCallers |-> Freed]
    /\ live = {}
    /\ created = [s \in ConcCallers |-> Freed]
    /\ assigned = {}
    /\ pc = [t \in ConcCallers |-> "idle"]
    /\ arg = [t \in ConcCallers |-> 0]
    /\ snap = [t \in ConcCallers |-> <<>>]
    /\ loc = [t \in ConcCallers |-> NoLocals]
    /\ ret = [t \in ConcCallers |-> 0]

Callers == DOMAIN pc

\* lists normalise returned, and those the calls in progress will return
Results == Cardinality({ l \in 1..Len(lists) : src[l] # 0 })
PendingLists == Cardinality({ u \in Callers : pc[u] \in NormalisePcs })

\* the slot a new Summary object takes: one per caller is enough
NewSummaryId == CHOOSE s \in DOMAIN summaries \ live : \A r \in DOMAIN summaries \ live : s <= r

----------------------------------------------------------------------------
(* A caller calls normalise(lists[l]) *)

CallNormalise(t, l) ==
    /\ pc[t] = "idle"
    /\ None \notin Elems(lists[l])
    /\ Results + PendingLists < MaxResults
    /\ pc' = [pc EXCEPT ![t] = "n11"]
    /\ arg' = [arg EXCEPT ![t] = l]
    /\ snap' = [snap EXCEPT ![t] = lists[l]]
    /\ loc' = [loc EXCEPT ![t] = NoLocals]
    /\ UNCHANGED <<lists, src, summaries, live, created, assigned, ret>>

\* `return out`: the new list goes to the caller
ReturnList(t, out) ==
    /\ lists' = Append(lists, out)
    /\ src' = Append(src, arg[t])
    /\ ret' = [ret EXCEPT ![t] = Len(lists) + 1]
    /\ pc' = [pc EXCEPT ![t] = "done_n"]
    /\ UNCHANGED <<summaries, live, created, assigned, arg, snap, loc>>

\* the frame of a step that only moves on and writes locals
LocalStep(t, next, locals) ==
    /\ pc' = [pc EXCEPT ![t] = next]
    /\ loc' = [loc EXCEPT ![t] = locals]
    /\ UNCHANGED <<lists, src, summaries, live, created, assigned, arg, snap, ret>>

\* lines 11-12: if not values: return []
EmptyCheck(t) ==
    /\ pc[t] = "n11"
    /\ IF IsEmpty(lists[arg[t]])
       THEN ReturnList(t, <<>>)
       ELSE LocalStep(t, "n14min", loc[t])

\* line 14: min(values)
TakeMin(t) ==
    /\ pc[t] = "n14min"
    /\ LocalStep(t, "n14max", [loc[t] EXCEPT !.lower = PyMin(lists[arg[t]])])

\* line 14: max(values)
TakeMax(t) ==
    /\ pc[t] = "n14max"
    /\ LocalStep(t, "n15", [loc[t] EXCEPT !.upper = PyMax(lists[arg[t]])])

\* line 15: if lower == upper
Compare(t) ==
    /\ pc[t] = "n15"
    /\ LocalStep(t, IF IsConstant(loc[t].lower, loc[t].upper) THEN "n16" ELSE "n17", loc[t])

\* line 16: return [1.0 for _ in values], one iteration or the return
OnesStep(t) ==
    /\ pc[t] = "n16"
    /\ IF loc[t].i <= Len(lists[arg[t]])
       THEN LocalStep(t, "n16", [loc[t] EXCEPT !.out = Append(@, Fill), !.i = @ + 1])
       ELSE ReturnList(t, loc[t].out)

\* line 17: spread = upper - lower
TakeSpread(t) ==
    /\ pc[t] = "n17"
    /\ LocalStep(t, "n18", [loc[t] EXCEPT !.spread = Spread(loc[t].lower, loc[t].upper)])

\* a bug: the scaled value also written back, `values[i] = ...`
ScaleStepInPlace(t) ==
    /\ pc[t] = "n18"
    /\ IF loc[t].i <= Len(lists[arg[t]])
       THEN LET scaled == Scaled(lists[arg[t]][loc[t].i], loc[t].lower, loc[t].spread)
            IN  /\ lists' = [lists EXCEPT ![arg[t]][loc[t].i] = scaled]
                /\ loc' = [loc EXCEPT ![t].out = Append(@, scaled), ![t].i = @ + 1]
                /\ UNCHANGED <<src, summaries, live, created, assigned, pc, arg, snap, ret>>
       ELSE ReturnList(t, loc[t].out)

\* line 18: return [(value - lower) / spread for value in values], one iteration
\* or the return; a zero spread raises ZeroDivisionError
ScaleStep(t) ==
    /\ pc[t] = "n18"
    /\ IF loc[t].i <= Len(lists[arg[t]])
       THEN IF loc[t].spread = 0
            THEN LocalStep(t, "raised", loc[t])
            ELSE LocalStep(t, "n18",
                     [loc[t] EXCEPT
                         !.out = ScaleItem(@, lists[arg[t]][loc[t].i], loc[t].lower, loc[t].spread),
                         !.i = @ + 1])
       ELSE ReturnList(t, loc[t].out)

----------------------------------------------------------------------------
(* A caller calls summarise(lists[l]) *)

CallSummarise(t, l) ==
    /\ pc[t] = "idle"
    /\ \A x \in Elems(lists[l]) : x = None \/ IsFinite(x)
    /\ pc' = [pc EXCEPT ![t] = "s28"]
    /\ arg' = [arg EXCEPT ![t] = l]
    /\ snap' = [snap EXCEPT ![t] = lists[l]]
    /\ loc' = [loc EXCEPT ![t] = NoLocals]
    /\ UNCHANGED <<lists, src, summaries, live, created, assigned, ret>>

\* a bug: the absent entries deleted from `values` itself
FilterStepInPlace(t) ==
    /\ pc[t] = "s28"
    /\ IF loc[t].i <= Len(lists[arg[t]])
       THEN LET value == lists[arg[t]][loc[t].i]
            IN  IF Retained(value)
                THEN LocalStep(t, "s28",
                         [loc[t] EXCEPT !.cleaned = Append(@, value), !.i = @ + 1])
                ELSE /\ lists' = [lists EXCEPT ![arg[t]] =
                                     SubSeq(@, 1, loc[t].i - 1) \o SubSeq(@, loc[t].i + 1, Len(@))]
                     /\ UNCHANGED <<src, summaries, live, created, assigned, pc, arg, snap, loc, ret>>
       ELSE LocalStep(t, "s29", loc[t])

\* line 28: cleaned = [value for value in values if value is not None], one
\* iteration or the end of the comprehension
FilterStep(t) ==
    /\ pc[t] = "s28"
    /\ IF loc[t].i <= Len(lists[arg[t]])
       THEN LET value == lists[arg[t]][loc[t].i]
            IN  LocalStep(t, "s28",
                    [loc[t] EXCEPT
                        !.cleaned = IF Retained(value) THEN Append(@, value) ELSE @,
                        !.i = @ + 1])
       ELSE LocalStep(t, "s29", loc[t])

\* a bug: one module-level Summary object filled in again by every call
BuildStepReuse(t) ==
    /\ pc[t] = "s29"
    /\ LET new == Summary(Len(loc[t].cleaned), Average(loc[t].cleaned))
           id == IF live = {} THEN NewSummaryId
                 ELSE CHOOSE s \in live : \A r \in live : s <= r
       IN  /\ summaries' = [summaries EXCEPT ![id] = new]
           /\ created' = IF id \in live THEN created ELSE [created EXCEPT ![id] = new]
           /\ live' = live \cup {id}
           /\ ret' = [ret EXCEPT ![t] = id]
    /\ pc' = [pc EXCEPT ![t] = "done_s"]
    /\ UNCHANGED <<lists, src, assigned, arg, snap, loc>>

\* line 29: return Summary(count=len(cleaned), average=mean(cleaned) if cleaned else 0.0)
BuildStep(t) ==
    /\ pc[t] = "s29"
    /\ LET new == Summary(Len(loc[t].cleaned), Average(loc[t].cleaned))
           id == NewSummaryId
       IN  /\ summaries' = [summaries EXCEPT ![id] = new]
           /\ created' = [created EXCEPT ![id] = new]
           /\ live' = live \cup {id}
           /\ ret' = [ret EXCEPT ![t] = id]
    /\ pc' = [pc EXCEPT ![t] = "done_s"]
    /\ UNCHANGED <<lists, src, assigned, arg, snap, loc>>

----------------------------------------------------------------------------
(* What a caller does with a result *)

\* the values a caller assigns to a field
AttrValues == {0, One}

\* lines 21-24: the dataclass is not frozen, so `summary.count = c` is allowed
AssignCount(t, c) ==
    /\ pc[t] = "done_s"
    /\ summaries' = [summaries EXCEPT ![ret[t]].count = c]
    /\ assigned' = assigned \cup {ret[t]}
    /\ UNCHANGED <<lists, src, live, created, pc, arg, snap, loc, ret>>

\* lines 21-24: likewise `summary.average = a`
AssignAverage(t, a) ==
    /\ pc[t] = "done_s"
    /\ summaries' = [summaries EXCEPT ![ret[t]].average = a]
    /\ assigned' = assigned \cup {ret[t]}
    /\ UNCHANGED <<lists, src, live, created, pc, arg, snap, loc, ret>>

\* the frame of a caller going back to idle
BackToIdle(t) ==
    /\ pc' = [pc EXCEPT ![t] = "idle"]
    /\ arg' = [arg EXCEPT ![t] = 0]
    /\ snap' = [snap EXCEPT ![t] = <<>>]
    /\ loc' = [loc EXCEPT ![t] = NoLocals]
    /\ ret' = [ret EXCEPT ![t] = 0]

\* the caller keeps the returned list (or handles the exception) and may call again
KeepList(t) ==
    /\ pc[t] \in {"done_n", "raised"}
    /\ BackToIdle(t)
    /\ UNCHANGED <<lists, src, summaries, live, created, assigned>>

\* the caller drops its only reference to the Summary, which is freed
DropSummary(t) ==
    /\ pc[t] = "done_s"
    /\ BackToIdle(t)
    /\ summaries' = [summaries EXCEPT ![ret[t]] = Freed]
    /\ created' = [created EXCEPT ![ret[t]] = Freed]
    /\ live' = live \ {ret[t]}
    /\ assigned' = assigned \ {ret[t]}
    /\ UNCHANGED <<lists, src>>

----------------------------------------------------------------------------
(* Specifications *)

Next ==
    \/ \E t \in Callers, l \in 1..Len(lists) : CallNormalise(t, l)
    \/ \E t \in Callers : EmptyCheck(t)
    \/ \E t \in Callers : TakeMin(t)
    \/ \E t \in Callers : TakeMax(t)
    \/ \E t \in Callers : Compare(t)
    \/ \E t \in Callers : OnesStep(t)
    \/ \E t \in Callers : TakeSpread(t)
    \/ \E t \in Callers : ScaleStep(t)
    \/ \E t \in Callers, l \in 1..Len(lists) : CallSummarise(t, l)
    \/ \E t \in Callers : FilterStep(t)
    \/ \E t \in Callers : BuildStep(t)
    \/ \E t \in Callers, c \in AttrValues : AssignCount(t, c)
    \/ \E t \in Callers, a \in AttrValues : AssignAverage(t, a)
    \/ \E t \in Callers : KeepList(t)
    \/ \E t \in Callers : DropSummary(t)

\* one caller, every list over InputValues up to MaxLen
Spec == Init /\ [][Next]_vars

\* NumCallers callers interleaving their calls' steps
SpecConc == InitConc /\ [][Next]_vars

----------------------------------------------------------------------------
(* Vocabulary of the properties *)

\* the lists normalise returned
ResultIds == { l \in 1..Len(lists) : src[l] # 0 }

\* a list of finite floats: the documented domain of normalise
AllFinite(v) == \A i \in 1..Len(v) : IsFinite(v[i])

\* min(v) # max(v)
NonConstant(v) == \E i, j \in 1..Len(v) : v[i] # v[j]

MinAt(v, i) == \A j \in 1..Len(v) : v[i] <= v[j]
MaxAt(v, i) == \A j \in 1..Len(v) : v[j] <= v[i]

LeastOf(v) == CHOOSE x \in Elems(v) : \A y \in Elems(v) : x <= y
GreatestOf(v) == CHOOSE x \in Elems(v) : \A y \in Elems(v) : y <= x

\* v and w are equal element for element, as == compares floats
SameFloats(v, w) == Len(v) = Len(w) /\ \A i \in 1..Len(v) : FEq(v[i], w[i])

\* upper - lower is a finite float for the list v
SpreadFits(v) == IsFinite(FSub(GreatestOf(v), LeastOf(v)))

RetainedAt(v) == { i \in 1..Len(v) : v[i] # None }

RECURSIVE SumAt(_, _)
SumAt(v, I) == IF I = {} THEN 0 ELSE LET i == CHOOSE k \in I : TRUE IN v[i] + SumAt(v, I \ {i})

\* a is a float nearest to n/d, and n/d itself when that is a float
NearestFloat(a, n, d) ==
    /\ IsFinite(a)
    /\ \A f \in Floats : Abs(d * a - n) <= Abs(d * f - n)

\* the unassigned Summary a finished summarise call returned
Returned(t) == pc[t] = "done_s" /\ ret[t] \notin assigned

----------------------------------------------------------------------------
(* C1 *)

\* C1: for every non-empty list v of finite floats with min(v) # max(v), every
\* element of normalise(v) lies in [0.0, 1.0], it is 0.0 wherever v holds its
\* minimum and 1.0 wherever v holds its maximum.
C1_RangeAndEnds ==
    \A l \in ResultIds :
        LET v == lists[src[l]]
            out == lists[l]
        IN  (AllFinite(v) /\ NonConstant(v)) =>
                /\ Len(out) = Len(v)
                /\ \A i \in 1..Len(v) :
                       /\ FLe(0, out[i]) /\ FLe(out[i], One)
                       /\ MinAt(v, i) => FEq(out[i], 0)
                       /\ MaxAt(v, i) => FEq(out[i], One)

\* C1, where upper - lower does not overflow: the same range and ends
C1_RangeAndEndsWhenSpreadFits ==
    \A l \in ResultIds :
        LET v == lists[src[l]]
            out == lists[l]
        IN  (AllFinite(v) /\ NonConstant(v) /\ SpreadFits(v)) =>
                /\ Len(out) = Len(v)
                /\ \A i \in 1..Len(v) :
                       /\ FLe(0, out[i]) /\ FLe(out[i], One)
                       /\ MinAt(v, i) => FEq(out[i], 0)
                       /\ MaxAt(v, i) => FEq(out[i], One)

----------------------------------------------------------------------------
(* C2 *)

\* C2: for every non-empty list v whose elements all equal one float c,
\* normalise(v) has the length of v and every element is 1.0.
C2_ConstantGivesOnes ==
    \A l \in ResultIds :
        LET v == lists[src[l]]
        IN  (Len(v) > 0 /\ AllFinite(v) /\ ~NonConstant(v)) =>
                lists[l] = [i \in 1..Len(v) |-> One]

\* normalise returned for a list of two or more zeros
C2_Witness ==
    \E l \in ResultIds :
        /\ Len(lists[src[l]]) >= 2
        /\ Elems(lists[src[l]]) = {0}
        /\ Len(lists[l]) = Len(lists[src[l]])

----------------------------------------------------------------------------
(* C3 *)

\* C3: summarise returns a Summary whose count is the number of entries that are
\* not None (a zero is retained) and, when count > 0, whose average is the sum of
\* the retained entries divided by count, as the float nearest to that quotient.
C3_CountAndAverage ==
    \A t \in Callers :
        Returned(t) =>
            LET v == lists[arg[t]]
                n == Cardinality(RetainedAt(v))
            IN  /\ summaries[ret[t]].count = n
                /\ n > 0 => NearestFloat(summaries[ret[t]].average, SumAt(v, RetainedAt(v)), n)

\* summarise returned for a list holding a zero, a None and another number
C3_Witness ==
    \E t \in Callers :
        /\ Returned(t)
        /\ {0, None} \subseteq Elems(lists[arg[t]])
        /\ summaries[ret[t]].count = 2
        /\ summaries[ret[t]].average # 0

----------------------------------------------------------------------------
(* C4 *)

\* C4: when the input has no retained entry (empty, or only None), summarise
\* returns a Summary with count 0 and average 0.0, never None.
C4_NothingRetained ==
    \A t \in Callers :
        (Returned(t) /\ RetainedAt(lists[arg[t]]) = {}) =>
            /\ summaries[ret[t]] = [count |-> 0, average |-> 0]

\* summarise returned for a list of two or more None
C4_Witness ==
    \E t \in Callers :
        /\ Returned(t)
        /\ Len(lists[arg[t]]) >= 2
        /\ Elems(lists[arg[t]]) = {None}

----------------------------------------------------------------------------
(* C5 *)

\* C5: the list normalise returns has the length of its input; the empty input
\* gives the empty list.
C5_SameLength ==
    \A l \in ResultIds : Len(lists[l]) = Len(lists[src[l]])

\* normalise returned for a list of three floats, not all equal, and its minimum
\* is there twice
C5_Witness ==
    \E l \in ResultIds :
        LET v == lists[src[l]]
        IN  /\ Len(v) = 3
            /\ NonConstant(v)
            /\ \E i, j \in 1..3 : i # j /\ MinAt(v, i) /\ MinAt(v, j)
            /\ Len(lists[l]) = 3

----------------------------------------------------------------------------
(* C6 *)

\* C6, first half: for every non-constant list v of finite floats whose minimum is
\* 0.0 and whose maximum is 1.0, normalise(v) equals v element for element.
C6_FixedOnNormalised ==
    \A l \in ResultIds :
        LET v == lists[src[l]]
        IN  (AllFinite(v) /\ NonConstant(v) /\ LeastOf(v) = 0 /\ GreatestOf(v) = One) =>
                SameFloats(lists[l], v)

\* C6: normalise is idempotent on normalised data: the first half, and for every
\* non-constant list w of finite floats normalise(normalise(w)) equals normalise(w)
\* element for element.
C6_Idempotent ==
    /\ C6_FixedOnNormalised
    /\ \A l, m \in ResultIds :
           (src[m] = l /\ src[l] \notin ResultIds
                /\ AllFinite(lists[src[l]]) /\ NonConstant(lists[src[l]])) =>
               SameFloats(lists[m], lists[l])

\* C6, where upper - lower does not overflow for w: normalise(normalise(w)) equals
\* normalise(w)
C6_IdempotentWhenSpreadFits ==
    \A l, m \in ResultIds :
        (src[m] = l /\ src[l] \notin ResultIds
             /\ AllFinite(lists[src[l]]) /\ NonConstant(lists[src[l]])
             /\ SpreadFits(lists[src[l]])) =>
            SameFloats(lists[m], lists[l])

----------------------------------------------------------------------------
(* C10 *)

\* C10: for every non-empty list v of finite floats with lower = min(v) # upper =
\* max(v), element i of normalise(v) is (v[i] - lower) / (upper - lower); values
\* keep their order, v[i] <= v[j] implies out[i] <= out[j], and equal inputs give
\* equal outputs.
C10_AffineAndMonotone ==
    \A l \in ResultIds :
        LET v == lists[src[l]]
            out == lists[l]
            lower == LeastOf(v)
            upper == GreatestOf(v)
        IN  (AllFinite(v) /\ NonConstant(v)) =>
                /\ Len(out) = Len(v)
                /\ \A i \in 1..Len(v) :
                       out[i] = FDiv(FSub(v[i], lower), FSub(upper, lower))
                /\ \A i, j \in 1..Len(v) :
                       /\ v[i] <= v[j] => FLe(out[i], out[j])
                       /\ v[i] = v[j] => FEq(out[i], out[j])

\* C10, where upper - lower does not overflow: order is kept and equal inputs
\* give equal outputs
C10_MonotoneWhenSpreadFits ==
    \A l \in ResultIds :
        LET v == lists[src[l]]
            out == lists[l]
        IN  (AllFinite(v) /\ NonConstant(v) /\ SpreadFits(v)) =>
                /\ Len(out) = Len(v)
                /\ \A i, j \in 1..Len(v) :
                       /\ v[i] <= v[j] => FLe(out[i], out[j])
                       /\ v[i] = v[j] => FEq(out[i], out[j])

----------------------------------------------------------------------------
(* C7 *)

\* C7: neither function modifies its input: during a call and after it, on every
\* path, the list passed holds the elements it held when the call was made.
C7_InputUntouched ==
    \A t \in Callers : pc[t] # "idle" => lists[arg[t]] = snap[t]

\* normalise returned for a non-constant list and summarise, run by another
\* caller on the same list object, is past its filter
C7_Witness ==
    \E t, u \in Callers :
        /\ t # u /\ arg[t] = arg[u]
        /\ pc[t] = "done_n" /\ NonConstant(snap[t])
        /\ pc[u] \in {"s29", "done_s"} /\ Len(loc[u].cleaned) = Len(snap[u])

----------------------------------------------------------------------------
(* C8 *)

\* C8 as stated: no operation changes a field of a Summary once it is created.
C8_FieldsNeverChange ==
    \A s \in live : summaries[s] = created[s]

\* C8 amended: only a caller's own assignment changes a field; the functions never
\* change a Summary they created before.
C8_FieldsChangeOnlyByAssignment ==
    \A s \in live \ assigned : summaries[s] = created[s]

\* two Summary objects are held: one a caller assigned a field of, one untouched
\* with a positive count
C8_Witness ==
    \E s, r \in live :
        /\ s \in assigned /\ summaries[s] # created[s]
        /\ r \notin assigned /\ summaries[r].count > 0

----------------------------------------------------------------------------
(* C9 *)

\* C9: under every interleaving of the callers' steps, a call returns what the
\* function returns when run alone, start to end, on the list as it was passed.
C9_SameAsAlone ==
    \A t \in Callers :
        /\ pc[t] = "done_n" => lists[ret[t]] = Normalise(snap[t])
        /\ Returned(t) => summaries[ret[t]] = Summarise(snap[t])

\* normalise returned for a non-constant list while another caller's call on the
\* same list is half way through its comprehension
C9_Witness ==
    \E t, u \in Callers :
        /\ t # u /\ arg[t] = arg[u]
        /\ pc[t] = "done_n" /\ NonConstant(snap[t])
        /\ pc[u] \in {"n18", "s28"} /\ loc[u].i = 2

====
